---- MODULE Spec2Model ----
(***************************************************************************)
(* Model of pre_commit_hooks/requirements_txt_fixer.py: the Requirement    *)
(* class (name, version detection, ordering), fix_requirements and main.   *)
(* Byte strings are sequences of byte codes; a file is its byte content.   *)
(***************************************************************************)
EXTENDS Integers, Sequences, FiniteSets, TLC

\* ------------------------------------------------------------------ bytes

PASS == 0
FAIL == 1

NL == 10
CR == 13
HASH == 35
SEMI == 59
BSL == 92

\* bytes.strip()/lstrip() and the regex class \s on bytes: " \t\n\r\x0b\x0c"
Whitespace == {9, 10, 11, 12, 13, 32}

\* b'#egg=' and b'&egg='
EGG_HASH == <<35, 101, 103, 103, 61>>
EGG_AMP == <<38, 101, 103, 103, 61>>

\* b'pkg-resources==0.0.0\n'
BLACKLISTED == <<112, 107, 103, 45, 114, 101, 115, 111, 117, 114, 99, 101, 115,
                 61, 61, 48, 46, 48, 46, 48, 10>>

\* b'\n', the value of the top-of-file entry
TOP_OF_FILE == <<10>>

\* '-r'
INCLUDE_PREFIX == <<45, 114>>

\* [A-Za-z0-9./:] of VERSION_MATCHER
VersionChars == (65..90) \cup (97..122) \cup (48..58) \cup {46, 47}

\* the one-byte operators of VERSION_MATCHER: > < @
SingleOps == {62, 60, 64}

\* the first bytes of its two-byte operators ending in '=': == != ~= >= <=
BeforeEq == {61, 33, 126, 62, 60}

\* the heads of UNTIL_COMPARISON's alternatives: > and < alone, = ! ~ before '='
CmpAlone == {62, 60}
CmpBeforeEq == {61, 33, 126}
EQUALS == 61

RECURSIVE LStrip(_)
LStrip(s) ==
    IF s = <<>> \/ Head(s) \notin Whitespace THEN s ELSE LStrip(Tail(s))

RECURSIVE RStripSet(_, _)
RStripSet(s, chars) ==
    IF s = <<>> \/ s[Len(s)] \notin chars THEN s
    ELSE RStripSet(SubSeq(s, 1, Len(s) - 1), chars)

Strip(s) == RStripSet(LStrip(s), Whitespace)

Lower(s) == [i \in 1..Len(s) |-> IF s[i] \in 65..90 THEN s[i] + 32 ELSE s[i]]

StartsWith(s, p) == Len(s) >= Len(p) /\ SubSeq(s, 1, Len(p)) = p

EndsWith(s, p) == Len(s) >= Len(p) /\ SubSeq(s, Len(s) - Len(p) + 1, Len(s)) = p

\* the positions at which sub occurs in s
Occurrences(s, sub) ==
    {i \in 1..(Len(s) - Len(sub) + 1) : SubSeq(s, i, i + Len(sub) - 1) = sub}

Contains(s, sub) == Occurrences(s, sub) # {}

Min(S) == CHOOSE x \in S : \A y \in S : x <= y

\* s.partition(sep)[-1] for a sep that occurs in s
PartitionLast(s, sep) ==
    LET i == Min(Occurrences(s, sep)) IN SubSeq(s, i + Len(sep), Len(s))

\* a < b on bytes: lexicographic on the byte codes
RECURSIVE BytesLess(_, _)
BytesLess(a, b) ==
    IF b = <<>> THEN FALSE
    ELSE IF a = <<>> THEN TRUE
    ELSE IF Head(a) # Head(b) THEN Head(a) < Head(b)
    ELSE BytesLess(Tail(a), Tail(b))

RECURSIVE Join(_)
Join(lines) == IF lines = <<>> THEN <<>> ELSE Head(lines) \o Join(Tail(lines))

\* list(f) on a binary file: the lines, each with its '\n', the last maybe without
RECURSIVE SplitLines(_)
SplitLines(s) ==
    IF s = <<>> THEN <<>>
    ELSE LET nls == {i \in 1..Len(s) : s[i] = NL} IN
         IF nls = {} THEN <<s>>
         ELSE LET i == Min(nls) IN
              <<SubSeq(s, 1, i)>> \o SplitLines(SubSeq(s, i + 1, Len(s)))

\* ------------------------------------------------------------ Requirement

\* Requirement(): value None, no comments
NewRequirement == [has_value |-> FALSE, value |-> <<>>, comments |-> <<>>]

\* UNTIL_SEP.match(name).group(): the longest prefix free of ';' and whitespace
RECURSIVE UntilSep(_)
UntilSep(s) ==
    IF s = <<>> \/ Head(s) = SEMI \/ Head(s) \in Whitespace THEN <<>>
    ELSE <<Head(s)>> \o UntilSep(Tail(s))

\* the start positions of the matches of UNTIL_COMPARISON in s
ComparisonStarts(s) ==
    {i \in 1..Len(s) :
        \/ s[i] \in CmpAlone
        \/ s[i] \in CmpBeforeEq /\ i < Len(s) /\ s[i + 1] = EQUALS}

\* Requirement.name: [ok |-> FALSE] is the failed assertion on UNTIL_SEP's match
Name(req) ==
    LET name == Lower(req.value) IN
    IF Contains(req.value, EGG_HASH)
        THEN [ok |-> TRUE, name |-> PartitionLast(name, EGG_HASH)]
    ELSE IF Contains(req.value, EGG_AMP)
        THEN [ok |-> TRUE, name |-> PartitionLast(name, EGG_AMP)]
    ELSE LET tok == UntilSep(name) IN
         IF tok = <<>> THEN [ok |-> FALSE, name |-> <<>>]
         ELSE LET starts == ComparisonStarts(tok) IN
              IF starts = {} THEN [ok |-> TRUE, name |-> tok]
              ELSE [ok |-> TRUE, name |-> SubSeq(tok, 1, Min(starts) - 1)]

\* Requirement.extract_version() is not None: VERSION_MATCHER finds a match
ExtractVersion(req) ==
    IF ~req.has_value \/ req.value = <<>> THEN FALSE
    ELSE LET v == req.value
             \* '$' matches at the end and before a final '\n'
             body == IF v[Len(v)] = NL THEN SubSeq(v, 1, Len(v) - 1) ELSE v
             pre == RStripSet(RStripSet(body, VersionChars), Whitespace)
             n == Len(pre)
         IN  /\ body # <<>>
             /\ body[Len(body)] \in VersionChars
             /\ n >= 1
             /\ \/ pre[n] \in SingleOps
                \/ pre[n] = EQUALS /\ n >= 2 /\ pre[n - 1] \in BeforeEq

HasVersion(req) == ExtractVersion(req)

IsInclude(req) ==
    IF ~req.has_value \/ req.value = <<>> THEN FALSE
    ELSE StartsWith(req.value, INCLUDE_PREFIX)

\* __lt__ comparing the values where it should compare the names
LtByValue(self, requirement) ==
    IF self.value = TOP_OF_FILE THEN "T"
    ELSE IF requirement.value = TOP_OF_FILE THEN "F"
    ELSE IF ~Name(self).ok \/ ~Name(requirement).ok THEN "E"
    ELSE IF BytesLess(self.value, requirement.value) THEN "T" ELSE "F"

\* Requirement.__lt__: "T", "F", or "E" when a name assertion fails
Lt(self, requirement) ==
    IF self.value = TOP_OF_FILE THEN "T"
    ELSE IF requirement.value = TOP_OF_FILE THEN "F"
    ELSE LET a == Name(self)
             b == Name(requirement)
         IN  IF ~a.ok \/ ~b.ok THEN "E"
             ELSE IF BytesLess(a.name, b.name) THEN "T" ELSE "F"

IsComplete(req) ==
    /\ req.has_value
    /\ ~EndsWith(RStripSet(req.value, {CR, NL}), <<BSL>>)

AppendValue(req, value) ==
    IF req.has_value THEN [req EXCEPT !.value = @ \o value]
    ELSE [req EXCEPT !.has_value = TRUE, !.value = value]

\* ------------------------------------------------------- fix_requirements

\* one iteration of "for line in before"
ScanLine(requirements, line) ==
    LET reqs == IF requirements = <<>> \/ IsComplete(requirements[Len(requirements)])
                THEN Append(requirements, NewRequirement)
                ELSE requirements
        n == Len(reqs)
        requirement == reqs[n]
    IN  IF n = 1 /\ Strip(line) = <<>>
        THEN IF /\ Len(requirement.comments) > 0
                /\ StartsWith(requirement.comments[1], <<HASH>>)
             THEN [reqs EXCEPT ![n].has_value = TRUE, ![n].value = TOP_OF_FILE]
             ELSE [reqs EXCEPT ![n].comments = Append(@, line)]
        ELSE IF StartsWith(LStrip(line), <<HASH>>) \/ Strip(line) = <<>>
        THEN [reqs EXCEPT ![n].comments = Append(@, line)]
        ELSE [reqs EXCEPT ![n] = AppendValue(@, line)]

RECURSIVE ScanFrom(_, _)
ScanFrom(requirements, lines) ==
    IF lines = <<>> THEN requirements
    ELSE ScanFrom(ScanLine(requirements, Head(lines)), Tail(lines))

\* the requirements list after the scan loop
Scan(lines) == ScanFrom(<<>>, lines)

\* "before[-1] += b'\n'" when the last line has no terminator
AddMissingNewline(before) ==
    IF before # <<>> /\ ~EndsWith(before[Len(before)], <<NL>>)
    THEN [before EXCEPT ![Len(before)] = @ \o <<NL>>]
    ELSE before

\* the position at which x goes into the sorted list s: after every element
\* it is not less than (0: a comparison raised)
RECURSIVE InsertPos(_, _, _)
InsertPos(s, x, j) ==
    IF j = 0 THEN 1
    ELSE LET c == Lt(x, s[j]) IN
         IF c = "E" THEN 0
         ELSE IF c = "T" THEN InsertPos(s, x, j - 1)
         ELSE j + 1

RECURSIVE SortInto(_, _)
SortInto(acc, todo) ==
    IF ~acc.ok \/ todo = <<>> THEN acc
    ELSE LET x == Head(todo)
             p == InsertPos(acc.list, x, Len(acc.list))
         IN  IF p = 0 THEN [ok |-> FALSE, list |-> <<>>]
             ELSE SortInto([ok |-> TRUE,
                            list |-> SubSeq(acc.list, 1, p - 1) \o <<x>>
                                     \o SubSeq(acc.list, p, Len(acc.list))],
                           Tail(todo))

\* sorted(requirements): stable, ordered by __lt__; ok = FALSE when __lt__ raised
Sorted(requirements) == SortInto([ok |-> TRUE, list |-> <<>>], requirements)

\* the filter that removes pkg-resources==0.0.0
RemoveBlacklisted(requirements) ==
    LET Keep(req) == req.value # BLACKLISTED IN SelectSeq(requirements, Keep)

\* the serialization loop emitting each value ahead of its comments
RECURSIVE SerializeValueFirst(_, _)
SerializeValueFirst(reqs, require_version) ==
    IF reqs = <<>> THEN [after |-> <<>>, missing_versions |-> <<>>]
    ELSE LET requirement == Head(reqs)
             tl == SerializeValueFirst(Tail(reqs), require_version)
         IN  [after |-> <<requirement.value>> \o requirement.comments \o tl.after,
              missing_versions |->
                  (IF require_version /\ ~IsInclude(requirement)
                      /\ ~HasVersion(requirement)
                   THEN <<Strip(requirement.value)>> ELSE <<>>)
                  \o tl.missing_versions]

\* the serialization loop: after, and missing_versions
RECURSIVE Serialize(_, _)
Serialize(reqs, require_version) ==
    IF reqs = <<>> THEN [after |-> <<>>, missing_versions |-> <<>>]
    ELSE LET requirement == Head(reqs)
             tl == Serialize(Tail(reqs), require_version)
             missing == /\ require_version
                        /\ ~IsInclude(requirement)
                        /\ ~HasVersion(requirement)
         IN  [after |-> requirement.comments \o <<requirement.value>> \o tl.after,
              missing_versions |->
                  (IF missing THEN <<Strip(requirement.value)>> ELSE <<>>)
                  \o tl.missing_versions]

\* What a call of fix_requirements leaves behind. raised: an assertion failed
\* and the call did not return (ret is then not returned); early: the
\* whitespace-only return; file: the content of the file after the call;
\* scanned: the requirements list after the scan loop; sorted: the list that
\* was serialized; rest: the comments popped off the end.
Result(before_string) ==
    [ret |-> PASS, early |-> FALSE, raised |-> FALSE, wrote |-> FALSE,
     before_string |-> before_string, file |-> before_string,
     after_string |-> <<>>, missing_versions |-> <<>>,
     scanned |-> <<>>, sorted |-> <<>>, rest |-> <<>>]

\* Outcome with before_string joined after the missing newline was added
OutcomeLateJoin(before_string, scanned, rest, sorted, missing, after_string) ==
    LET joined == Join(AddMissingNewline(SplitLines(before_string))) IN
    [Result(before_string) EXCEPT
        !.ret = IF Len(missing) > 0 \/ joined # after_string
                THEN FAIL ELSE PASS,
        !.wrote = joined # after_string,
        !.file = IF joined # after_string THEN after_string ELSE before_string,
        !.after_string = after_string,
        !.missing_versions = missing,
        !.scanned = scanned, !.sorted = sorted, !.rest = rest]

\* "outcome = PASS" to "return outcome"
Outcome(before_string, scanned, rest, sorted, missing, after_string) ==
    [Result(before_string) EXCEPT
        !.ret = IF Len(missing) > 0 \/ before_string # after_string
                THEN FAIL ELSE PASS,
        !.wrote = before_string # after_string,
        !.file = IF before_string # after_string THEN after_string
                 ELSE before_string,
        !.after_string = after_string,
        !.missing_versions = missing,
        !.scanned = scanned, !.sorted = sorted, !.rest = rest]

\* the serialization loop, after.extend(rest) and the join
FixSorted(before_string, scanned, rest, sorted, ser) ==
    Outcome(before_string, scanned, rest, sorted, ser.missing_versions,
            Join(ser.after \o rest))

\* "for requirement in sorted(requirements)": sorted() raises or returns
FixFiltered(before_string, scanned, rest, srt, require_version) ==
    IF ~srt.ok
    THEN [Result(before_string) EXCEPT !.raised = TRUE, !.scanned = scanned]
    ELSE FixSorted(before_string, scanned, rest, srt.list,
                   Serialize(srt.list, require_version))

\* "if requirements[-1].value is None: rest = requirements.pop().comments"
Rest(scanned) ==
    IF ~scanned[Len(scanned)].has_value THEN scanned[Len(scanned)].comments
    ELSE <<>>

Popped(scanned) ==
    IF ~scanned[Len(scanned)].has_value THEN SubSeq(scanned, 1, Len(scanned) - 1)
    ELSE scanned

FixScanned(before_string, scanned, require_version) ==
    FixFiltered(before_string, scanned, Rest(scanned),
                Sorted(RemoveBlacklisted(Popped(scanned))), require_version)

\* fix_requirements(f, require_version) on a file holding before_string
FixRequirements(before_string, require_version) ==
    IF Strip(before_string) = <<>>
    THEN [Result(before_string) EXCEPT !.early = TRUE]
    ELSE FixScanned(before_string,
                    Scan(AddMissingNewline(SplitLines(before_string))),
                    require_version)

\* ------------------------------------------------------------------- main

\* "retv = ret_for_file" in place of "retv |= ret_for_file"
BitOrAssign(a, b) == b

\* retv |= ret_for_file on the outcome codes 0 and 1
BitOr(a, b) == IF a = FAIL \/ b = FAIL THEN FAIL ELSE PASS

\* ----------------------------------------------------------------- inputs

MaxLines == 3
MaxFiles == 2
MaxArgLines == 2
MaxRuns == 2

\* the physical lines a file is made of, without their terminator:
\*   b  B  a==1  a@1  -r  #c  (empty)  (one space)  a\  (space)b
\*   pkg-resources==0.0.0  x#egg=a
Pool ==
    { <<98>>, <<66>>, <<97, 61, 61, 49>>, <<97, 64, 49>>, <<45, 114>>,
      <<35, 99>>, <<>>, <<32>>, <<97, 92>>, <<32, 98>>,
      SubSeq(BLACKLISTED, 1, Len(BLACKLISTED) - 1),
      <<120, 35, 101, 103, 103, 61, 97>> }

\* the lines of the files main is given several of:  a  (space)b
ArgPool == { <<97>>, <<32, 98>> }

\* the sequences of at most n elements of S
SeqsUpTo(S, n) == UNION {[1..k -> S] : k \in 0..n}

\* the file made of the lines ls, its last line terminated or not
Content(ls, terminated) ==
    LET all == Join([i \in 1..Len(ls) |-> ls[i] \o <<NL>>]) IN
    IF terminated \/ all = <<>> THEN all ELSE SubSeq(all, 1, Len(all) - 1)

Contents(pool, n) ==
    {Content(ls, t) : ls \in SeqsUpTo(pool, n), t \in BOOLEAN}

\* what a file may begin with: nothing, or the comment block "#c", blank line
Headers == { <<>>, <<35, 99, 10, 10>> }

VARIABLES
    files,            \* the content of each file named on the command line
    require_version,  \* args.require_version
    pc,               \* "idle", "loop" (in main's for loop), "done", "raised"
    idx,              \* the number of files main has gone through
    retv,             \* main's retv
    run,              \* the number of times main was started
    log,              \* this call's fix_requirements results, one per file
    stdout            \* what this call of main printed

vars == <<files, require_version, pc, idx, retv, run, log, stdout>>

Init ==
    /\ \/ \E h \in Headers, c \in Contents(Pool, MaxLines) : files = <<h \o c>>
       \/ files \in (SeqsUpTo(Contents(ArgPool, MaxArgLines), MaxFiles) \ {<<>>})
    /\ require_version \in BOOLEAN
    /\ pc = "idle"
    /\ idx = 0
    /\ retv = PASS
    /\ run = 0
    /\ log = <<>>
    /\ stdout = <<>>

\* main is called: parse_args, retv = PASS
MainStart ==
    /\ pc \in {"idle", "done", "raised"}
    /\ run < MaxRuns
    /\ pc' = "loop"
    /\ idx' = 0
    /\ retv' = PASS
    /\ run' = run + 1
    /\ log' = <<>>
    /\ stdout' = <<>>
    /\ UNCHANGED <<files, require_version>>

\* the body of "for arg in args.filenames" for the file arg, r being what
\* fix_requirements did on it
IterBody(arg, r) ==
    /\ log' = Append(log, r)
    /\ files' = [files EXCEPT ![arg] = r.file]
    /\ IF r.raised
       THEN /\ pc' = "raised"
            /\ UNCHANGED <<idx, retv, stdout>>
       ELSE /\ pc' = "loop"
            /\ idx' = arg
            /\ retv' = BitOr(retv, r.ret)
            /\ stdout' = stdout
                 \o (IF Len(r.missing_versions) > 0
                     THEN <<[kind |-> "Missing versions in:", arg |-> arg,
                             names |-> r.missing_versions]>>
                     ELSE <<>>)
                 \o (IF r.ret # 0
                     THEN <<[kind |-> "Sorting", arg |-> arg, names |-> <<>>]>>
                     ELSE <<>>)

\* one iteration of "for arg in args.filenames"
MainIter ==
    /\ pc = "loop"
    /\ idx < Len(files)
    /\ IterBody(idx + 1, FixRequirements(files[idx + 1], require_version))
    /\ UNCHANGED <<require_version, run>>

\* "return retv"
MainReturn ==
    /\ pc = "loop"
    /\ idx = Len(files)
    /\ pc' = "done"
    /\ UNCHANGED <<files, require_version, idx, retv, run, log, stdout>>

Next == MainStart \/ MainIter \/ MainReturn

Spec == Init /\ [][Next]_vars

\* ----------------------------------------------------------- observations

\* the calls of fix_requirements this call of main has made
Calls == {log[i] : i \in 1..Len(log)}

\* the calls that returned past the whitespace-only check
Returned == {r \in Calls : ~r.raised /\ ~r.early}

\* the lines fix_requirements scans: list(f) with the last line terminated
InputLines(r) == AddMissingNewline(SplitLines(r.before_string))

\* the entries the scan found in a call's input, the trailing comments popped
InputEntries(r) == Popped(r.scanned)

Range(s) == {s[i] : i \in 1..Len(s)}

Count(s, x) == Cardinality({i \in 1..Len(s) : s[i] = x})

IsMarker(req) == req.value = TOP_OF_FILE

\* the physical lines of an entry: its comments, then its content
EntryLines(req) == req.comments \o SplitLines(req.value)

\* ----------------------------------------------------------------- claims

\* C3: fix_requirements writes the file if and only if the serialized result
\* differs from the original bytes, and then the file holds the serialized
\* result; in every other case (the whitespace-only return, missing versions
\* only, a failed assertion, a step that is not a call on this file) the
\* file's bytes stay as they were.
RewriteOnlyOnChange ==
    [][\A k \in 1..Len(files) :
          IF pc = "loop" /\ k = idx + 1
          THEN LET r == log'[Len(log')] IN
               IF /\ ~r.raised
                  /\ Strip(files[k]) # <<>>
                  /\ r.after_string # files[k]
               THEN r.wrote /\ files'[k] = r.after_string
               ELSE ~r.wrote /\ files'[k] = files[k]
          ELSE files'[k] = files[k]]_vars

\* a call that rewrote its file and a call that reported missing versions and
\* left its file alone
RewriteOnlyOnChangeWitness ==
    \E r1 \in Calls, r2 \in Calls :
        /\ r1.wrote /\ r1.file # r1.before_string
        /\ r2.missing_versions # <<>> /\ ~r2.wrote /\ r2.file = r2.before_string

\* C4: the code main returns is nonzero if and only if at least one file was
\* rewritten or had missing versions reported, and it is PASS exactly when
\* every file's own outcome is PASS.
ExitCode ==
    pc = "done" =>
        /\ Len(log) = Len(files)
        /\ (retv # PASS) <=>
              \E i \in 1..Len(log) :
                  \/ log[i].file # log[i].before_string
                  \/ \E m \in Range(stdout) :
                        m.kind = "Missing versions in:" /\ m.arg = i
        /\ (retv = PASS) <=> \A i \in 1..Len(log) : log[i].ret = PASS

\* main returned after a file that failed and a later one that passed
ExitCodeWitness ==
    /\ pc = "done"
    /\ Len(log) >= 2
    /\ log[1].ret = FAIL
    /\ log[Len(log)].ret = PASS
    /\ retv = FAIL

\* C9: fix_requirements returns PASS or FAIL on every input; no assertion
\* fails and nothing is raised.
NoError == pc # "raised" /\ \A r \in Calls : ~r.raised

IsCommentLine(line) == StartsWith(LStrip(line), <<HASH>>) \/ Strip(line) = <<>>

\* where the run of comment and blank lines right before line j begins
RECURSIVE BlockStart(_, _)
BlockStart(lines, j) ==
    IF j > 1 /\ IsCommentLine(lines[j - 1]) THEN BlockStart(lines, j - 1) ELSE j

\* a requirement line that makes an entry alone: it does not end in a
\* continuation backslash and the requirement line before it, if any, does not
SingleLineEntry(lines, j) ==
    /\ ~IsCommentLine(lines[j])
    /\ ~EndsWith(RStripSet(lines[j], {CR, NL}), <<BSL>>)
    /\ \A k \in 1..(j - 1) :
          (~IsCommentLine(lines[k]) /\ \A m \in (k + 1)..(j - 1) : IsCommentLine(lines[m]))
              => ~EndsWith(RStripSet(lines[k], {CR, NL}), <<BSL>>)

\* C5 as stated: each run of comment and blank lines right before a
\* requirement line of the input stands, in its order, right before that
\* same line in the output (checked for the one-line requirements the output
\* keeps).
CommentBlockStaysWithItsLine ==
    \A r \in Returned :
        LET inp == InputLines(r)
            out == SplitLines(r.file)
        IN  \A j \in 1..Len(inp) :
                (SingleLineEntry(inp, j) /\ inp[j] \in Range(out)) =>
                    Contains(out, SubSeq(inp, BlockStart(inp, j), j))

\* C5, amended: each entry the scan finds, other than a removed
\* pkg-resources==0.0.0 entry, stands in the output as its comment and blank
\* lines in their order followed at once by its content; the top-of-file
\* comment block is an entry of its own (it stays first and does not travel
\* with the requirement after it). A call that writes nothing leaves every
\* line where it was.
CommentsTravelWithEntry ==
    \A r \in Calls :
        IF r.raised \/ r.early THEN r.file = r.before_string
        ELSE \A e \in Range(InputEntries(r)) :
                e.value # BLACKLISTED =>
                    Contains(SplitLines(r.file), EntryLines(e))

\* an entry with comments, second or later in the input, was moved to the front
CommentsTravelWitness ==
    \E r \in Returned :
        /\ r.wrote
        /\ Len(r.sorted) >= 2
        /\ r.sorted[1].comments # <<>>
        /\ StartsWith(r.sorted[1].comments[1], <<HASH>>)
        /\ ~IsMarker(r.sorted[1])
        /\ r.sorted[1] # InputEntries(r)[1]

\* C1: a second run on the content the first run left leaves the bytes as
\* they are and returns PASS (checked for the second runs that return, and
\* PASS for those that report no missing version).
Idempotent ==
    run = 2 =>
        \A r \in Calls :
            /\ r.file = r.before_string
            /\ (~r.raised /\ r.missing_versions = <<>>) => r.ret = PASS

\* C6: an entry that is exactly pkg-resources==0.0.0 plus terminator is absent
\* from the output wherever it stood, and its removal makes the outcome FAIL
\* with the file rewritten.
BlacklistRemoved ==
    \A r \in Calls :
        (~r.early /\ \E e \in Range(InputEntries(r)) : e.value = BLACKLISTED) =>
            /\ ~r.raised
            /\ r.ret = FAIL
            /\ r.wrote /\ r.file = r.after_string
            /\ \A e \in Range(Scan(SplitLines(r.file))) : e.value # BLACKLISTED

\* C7: with require_version, every complete entry whose content holds none of
\* == === != ~= >= <= > < is reported as missing and makes the outcome FAIL,
\* unless it starts with -r; an include entry is never reported.
VersionRequired ==
    require_version =>
        \A r \in Calls :
            ~r.early =>
                \A e \in Range(InputEntries(r)) :
                    /\ ( /\ IsComplete(e)
                         /\ ComparisonStarts(e.value) = {}
                         /\ ~StartsWith(e.value, INCLUDE_PREFIX) ) =>
                            /\ ~r.raised
                            /\ Strip(e.value) \in Range(r.missing_versions)
                            /\ r.ret = FAIL
                    /\ StartsWith(e.value, INCLUDE_PREFIX) =>
                            Strip(e.value) \notin Range(r.missing_versions)

\* C8: with require_version, an input already in normalized order (the fixer
\* without the flag passes it) in which every requirement entry has a version
\* yields PASS, no report and no rewrite, a comment block at the top included.
NormalizedVersionedPasses ==
    require_version =>
        \A r \in Calls :
            ( /\ ~r.early
              /\ ~FixRequirements(r.before_string, FALSE).raised
              /\ FixRequirements(r.before_string, FALSE).ret = PASS
              /\ \A e \in Range(InputEntries(r)) :
                    ~IsMarker(e) => HasVersion(e) ) =>
                /\ ~r.raised
                /\ r.ret = PASS
                /\ r.missing_versions = <<>>
                /\ ~r.wrote

\* the lines of the entries the blacklist filter removes, comments included
RECURSIVE RemovedLines(_)
RemovedLines(entries) ==
    IF entries = <<>> THEN <<>>
    ELSE (IF Head(entries).value = BLACKLISTED THEN EntryLines(Head(entries))
          ELSE <<>>) \o RemovedLines(Tail(entries))

\* C10: when fix_requirements returns on an input that is not whitespace-only,
\* the output holds each line as many times as the input (last line
\* terminated) does, less the lines of the removed pkg-resources==0.0.0
\* entries and their comments.
LinesPreserved ==
    \A r \in Returned :
        LET inp == InputLines(r)
            out == SplitLines(r.file)
            gone == RemovedLines(InputEntries(r))
        IN  \A l \in Range(inp) \cup Range(out) :
                Count(out, l) = Count(inp, l) - Count(gone, l)

====
